---------------------------- MODULE Spec2Model ----------------------------
(***************************************************************************)
(* A model of the host side of risc0-steel (steel/src/host/mod.rs) and of  *)
(* the token-stats guest (examples/token-stats/methods/guest/src/main.rs). *)
(*                                                                         *)
(* Three state machines share the module:                                  *)
(*   SpecSelector  the block selector: FromStr, Display, into_rpc_type     *)
(*   SpecHost      one HostEvmEnv: spawn_with_db, with_chain_spec and the  *)
(*                 finalizations into_input / into_beacon_input            *)
(*   SpecGuest     runs of the guest main() composing journals             *)
(*                                                                         *)
(* A u64 is a sequence of U64Nibbles hexadecimal digits (values 0..15),    *)
(* most significant first, so that 64-bit overflow is modelled exactly.    *)
(* A string is a sequence of one-character strings.                        *)
(***************************************************************************)
EXTENDS Integers, Sequences, FiniteSets

VARIABLES
    \* ---- selector machine
    str,        \* the text handed to from_str
    parsed,     \* the Result of from_str(str), or None
    shown,      \* the text to_string gave for the parsed selector, or None
    reparsed,   \* the Result of from_str(shown), or None
    rpc,        \* the Result of into_rpc_type for the parsed selector, or None
    \* ---- host machine
    env,        \* the HostEvmEnv value
    worker,     \* the spawn_blocking task
    fut,        \* the spawn_with_db future held by the caller
    outputs,    \* what finalizations returned, in order
    ioLog,      \* the I/O requests finalizations issued, in order
    lastOp,     \* the last operation on the environment and how it ended
    dbLife,     \* the ProofDb value: "owned", "dropped" or "drained"
    \* ---- guest machine
    receipts,   \* the receipts that exist: (image id, journal bytes)
    lastRun     \* the last guest run: its input and what it did

selVars   == <<str, parsed, shown, reparsed, rpc>>
hostVars  == <<env, worker, fut, outputs, ioLog, lastOp, dbLife>>
guestVars == <<receipts, lastRun>>
vars      == <<str, parsed, shown, reparsed, rpc,
               env, worker, fut, outputs, ioLog, lastOp, dbLife,
               receipts, lastRun>>

None == <<"None">>

Ok(v)  == <<"Ok", v>>
Err(e) == <<"Err", e>>
IsOk(r)  == r[1] = "Ok"
IsErr(r) == r[1] = "Err"

(***************************************************************************)
(* u64 arithmetic on nibble sequences                                      *)
(***************************************************************************)
U64Nibbles == 16

Nibble == 0 .. 15

RECURSIVE Zeros(_)
Zeros(k) == IF k = 0 THEN <<>> ELSE <<0>> \o Zeros(k - 1)

U64Zero == Zeros(U64Nibbles)

RECURSIVE Fs(_)
Fs(k) == IF k = 0 THEN <<>> ELSE <<15>> \o Fs(k - 1)

U64Max == Fs(U64Nibbles)

\* the u64 with value v, for a small v (v < 16^4)
U64Of(v) ==
    Zeros(U64Nibbles - 4) \o
    << (v \div 4096) % 16, (v \div 256) % 16, (v \div 16) % 16, v % 16 >>

\* a u64 whose only non-zero nibble is d at position p (counted from the
\* least significant nibble, 0-based): d * 16^p
U64Shifted(d, p) ==
    [i \in 1 .. U64Nibbles |-> IF i = U64Nibbles - p THEN d ELSE 0]

\* u64::checked_mul(16): None on overflow
CheckedMul16(n) ==
    IF n[1] # 0 THEN None ELSE Ok(Tail(n) \o <<0>>)

\* u64::checked_add of a single digit to a value whose last nibble is 0..15
RECURSIVE AddCarry(_, _, _)
AddCarry(n, i, c) ==
    \* add carry c at nibble i (1-based from the left) and propagate
    IF c = 0 THEN Ok(n)
    ELSE IF i = 0 THEN None
    ELSE LET s == n[i] + c
         IN  AddCarry([n EXCEPT ![i] = s % 16], i - 1, s \div 16)

CheckedAddDigit(n, d) == AddCarry(n, U64Nibbles, d)

\* latest - 1, for latest > 0
RECURSIVE Borrow(_, _)
Borrow(n, i) ==
    IF n[i] > 0 THEN [n EXCEPT ![i] = n[i] - 1]
    ELSE Borrow([n EXCEPT ![i] = 15], i - 1)

U64Pred(n) == Borrow(n, U64Nibbles)

RECURSIVE U64Less(_, _)
U64Less(a, b) ==
    \* a < b, comparing from the most significant nibble
    IF a = <<>> THEN FALSE
    ELSE IF Head(a) # Head(b) THEN Head(a) < Head(b)
    ELSE U64Less(Tail(a), Tail(b))

(***************************************************************************)
(* Characters                                                              *)
(***************************************************************************)
LowerHex == <<"0","1","2","3","4","5","6","7","8","9","a","b","c","d","e","f">>
UpperHex == <<"0","1","2","3","4","5","6","7","8","9","A","B","C","D","E","F">>

\* char::to_digit(16): the digit's value, or -1 when c is no hex digit
ToDigit(c) ==
    IF \E i \in 1 .. 16 : LowerHex[i] = c
    THEN (CHOOSE i \in 1 .. 16 : LowerHex[i] = c) - 1
    ELSE IF \E i \in 1 .. 16 : UpperHex[i] = c
    THEN (CHOOSE i \in 1 .. 16 : UpperHex[i] = c) - 1
    ELSE -1

\* str::strip_prefix("0x")
StripPrefix0x(s) ==
    IF Len(s) >= 2 /\ s[1] = "0" /\ s[2] = "x"
    THEN Ok(SubSeq(s, 3, Len(s)))
    ELSE None


(***************************************************************************)
(* BlockNumberOrTag and its conversions                                    *)
(***************************************************************************)
\* enum BlockNumberOrTag
Latest    == <<"Latest">>
Parent    == <<"Parent">>
Safe      == <<"Safe">>
Finalized == <<"Finalized">>
Number(n) == <<"Number", n>>

\* alloy's rpc::types::BlockNumberOrTag, the variants used here
RpcLatest    == <<"Rpc", "Latest">>
RpcSafe      == <<"Rpc", "Safe">>
RpcFinalized == <<"Rpc", "Finalized">>
RpcNumber(n) == <<"Rpc", "Number", n>>

StrLatest    == <<"l","a","t","e","s","t">>
StrParent    == <<"p","a","r","e","n","t">>
StrSafe      == <<"s","a","f","e">>
StrFinalized == <<"f","i","n","a","l","i","z","e","d">>
Str0x        == <<"0","x">>

\* the digit loop of u64::from_str_radix: for each character, the shifted
\* accumulator is computed, the character is converted (InvalidDigit), then
\* the shift's overflow is reported (PosOverflow), then the digit is added
RECURSIVE ParseDigits(_, _)
ParseDigits(digits, acc) ==
    IF digits = <<>> THEN Ok(acc)
    ELSE LET mul == CheckedMul16(acc)
             x   == ToDigit(Head(digits))
         IN  IF x = -1 THEN Err("InvalidDigit")
             ELSE IF mul = None THEN Err("PosOverflow")
             ELSE LET sum == CheckedAddDigit(mul[2], x)
                  IN  IF sum = None THEN Err("PosOverflow")
                      ELSE ParseDigits(Tail(digits), sum[2])

\* u64::from_str_radix(src, 16): an optional "+" sign, then digits
from_str_radix(src) ==
    IF src = <<>> THEN Err("Empty")
    ELSE IF src[1] \in {"+", "-"} /\ Len(src) = 1 THEN Err("InvalidDigit")
    ELSE IF src[1] = "+" THEN ParseDigits(Tail(src), U64Zero)
    ELSE ParseDigits(src, U64Zero)

\* a variant of from_str that tries a decimal-looking string as a number
from_str_lenient(s) ==
    IF s = StrLatest THEN Ok(Latest)
    ELSE IF s = StrParent THEN Ok(Parent)
    ELSE IF s = StrSafe THEN Ok(Safe)
    ELSE IF s = StrFinalized THEN Ok(Finalized)
    ELSE LET hex_val == IF StripPrefix0x(s) # None THEN StripPrefix0x(s)[2] ELSE s
             number  == from_str_radix(hex_val)
         IN  IF IsOk(number) THEN Ok(Number(number[2])) ELSE Err(number[2])

\* impl FromStr for BlockNumberOrTag
from_str(s) ==
    IF s = StrLatest THEN Ok(Latest)
    ELSE IF s = StrParent THEN Ok(Parent)
    ELSE IF s = StrSafe THEN Ok(Safe)
    ELSE IF s = StrFinalized THEN Ok(Finalized)
    ELSE LET hex_val == StripPrefix0x(s)
         IN  IF hex_val # None
             THEN LET number == from_str_radix(hex_val[2])
                  IN  IF IsOk(number) THEN Ok(Number(number[2]))
                      ELSE Err(number[2])
             ELSE Err("HexStringMissingPrefix")

\* {x:x}: lowercase hexadecimal without leading zeros, "0" for zero
RECURSIVE StripLeadingZeros(_)
StripLeadingZeros(n) ==
    IF Len(n) = 1 \/ Head(n) # 0 THEN n ELSE StripLeadingZeros(Tail(n))

LowerHexFmt(n) ==
    LET d == StripLeadingZeros(n)
    IN  [i \in 1 .. Len(d) |-> LowerHex[d[i] + 1]]

\* a variant of Display that prints the number without the "0x" prefix
to_string_no_prefix(b) ==
    IF b[1] = "Number" THEN LowerHexFmt(b[2])
    ELSE IF b = Latest THEN StrLatest
    ELSE IF b = Parent THEN StrParent
    ELSE IF b = Safe THEN StrSafe
    ELSE StrFinalized

\* impl Display for BlockNumberOrTag
to_string(b) ==
    IF b[1] = "Number" THEN Str0x \o LowerHexFmt(b[2])
    ELSE IF b = Latest THEN StrLatest
    ELSE IF b = Parent THEN StrParent
    ELSE IF b = Safe THEN StrSafe
    ELSE StrFinalized

\* a variant of into_rpc_type without the genesis check: latest - 1 wraps
into_rpc_type_unchecked(b, latest) ==
    IF b = Latest THEN Ok(RpcLatest)
    ELSE IF b = Parent
    THEN IF IsErr(latest) THEN Err(latest[2])
         ELSE IF latest[2] = U64Zero THEN Ok(RpcNumber(U64Max))
         ELSE Ok(RpcNumber(U64Pred(latest[2])))
    ELSE IF b = Safe THEN Ok(RpcSafe)
    ELSE IF b = Finalized THEN Ok(RpcFinalized)
    ELSE Ok(RpcNumber(b[2]))

\* BlockNumberOrTag::into_rpc_type; latest is what provider.get_block_number()
\* answers (it is awaited only for Parent)
into_rpc_type(b, latest) ==
    IF b = Latest THEN Ok(RpcLatest)
    ELSE IF b = Parent
    THEN IF IsErr(latest) THEN Err(latest[2])
         ELSE IF ~ U64Less(U64Zero, latest[2])
         THEN Err("genesis does not have a parent")
         ELSE Ok(RpcNumber(U64Pred(latest[2])))
    ELSE IF b = Safe THEN Ok(RpcSafe)
    ELSE IF b = Finalized THEN Ok(RpcFinalized)
    ELSE Ok(RpcNumber(b[2]))

(***************************************************************************)
(* The selector machine                                                    *)
(***************************************************************************)
MaxStrLen == 4

Alphabet == {"0", "x", "f", "F", "9", "+", "-", " "}

ShortStrings == UNION { [1 .. k -> Alphabet] : k \in 0 .. MaxStrLen }

\* the four tags, near misses of them, and numerals at the 64-bit boundary
NamedStrings ==
    { StrLatest, StrParent, StrSafe, StrFinalized,
      <<"L","a","t","e","s","t">>, <<"P","A","R","E","N","T">>,
      <<"S","a","f","e">>, <<"s","a","f","e"," ">>, <<" ","l","a","t","e","s","t">>,
      <<"e","a","r","l","i","e","s","t">>, <<"p","e","n","d","i","n","g">>,
      <<"2","5","5">>, <<"0","X","f","f">>, <<"0","x","+","f","f">>,
      <<"0","x","1","0","0">>, <<"0","x","0","0","0","1">>, <<"f","f">>,
      <<"0","x","A","0">>, <<"0","x","d","e","a","d","B","E","E","F">>,
      Str0x \o [i \in 1 .. U64Nibbles |-> LowerHex[(i % 16) + 1]],
      Str0x \o LowerHexFmt(U64Max),
      Str0x \o <<"0">> \o LowerHexFmt(U64Max),
      Str0x \o <<"1">> \o [i \in 1 .. U64Nibbles |-> "0"],
      Str0x \o <<"F">> \o LowerHexFmt(U64Max),
      Str0x \o <<"+">> \o LowerHexFmt(U64Max) }

SelectorInputs == ShortStrings \cup NamedStrings

\* what provider.get_block_number() can answer
BlockNumberAnswers ==
    { Err("transport"), Ok(U64Zero), Ok(U64Of(1)), Ok(U64Of(256)), Ok(U64Max) }

\* no blocking task
NoWorker == [db |-> None, phase |-> "none", attached |-> FALSE]

\* no operation yet
NoOp == [op |-> "none", arg |-> None, result |-> "none", busy |-> FALSE]

SelectorIdle ==
    /\ str = <<>> /\ parsed = None /\ shown = None /\ reparsed = None
    /\ rpc = None

HostIdle ==
    /\ env = None /\ worker = NoWorker /\ fut = "none"
    /\ outputs = <<>> /\ ioLog = <<>> /\ lastOp = NoOp /\ dbLife = "owned"

\* no guest run yet
NoRun ==
    [prog |-> "none", self_image_id |-> "none", assumption |-> None,
     links |-> TRUE, steps |-> <<>>, stage |-> "none", start |-> None, sample |-> None,
     journal |-> None]

GuestIdle == receipts = {} /\ lastRun = NoRun

InitSelector ==
    /\ str \in SelectorInputs
    /\ parsed = None /\ shown = None /\ reparsed = None /\ rpc = None
    /\ HostIdle /\ GuestIdle

\* the caller parses the text
FromStr ==
    /\ parsed = None
    /\ parsed' = from_str(str)
    /\ UNCHANGED <<str, shown, reparsed, rpc>>
    /\ UNCHANGED hostVars /\ UNCHANGED guestVars

\* the caller prints the selector
ToString ==
    /\ parsed # None /\ IsOk(parsed) /\ shown = None
    /\ shown' = to_string(parsed[2])
    /\ UNCHANGED <<str, parsed, reparsed, rpc>>
    /\ UNCHANGED hostVars /\ UNCHANGED guestVars

\* the printed text is parsed again
Reparse ==
    /\ shown # None /\ reparsed = None
    /\ reparsed' = from_str(shown)
    /\ UNCHANGED <<str, parsed, shown, rpc>>
    /\ UNCHANGED hostVars /\ UNCHANGED guestVars

\* the builder resolves the selector against the provider; rpc records the
\* provider's answer and the result
IntoRpcType ==
    /\ parsed # None /\ IsOk(parsed) /\ rpc = None
    /\ \E latest \in BlockNumberAnswers :
          rpc' = <<latest, into_rpc_type(parsed[2], latest)>>
    /\ UNCHANGED <<str, parsed, shown, reparsed>>
    /\ UNCHANGED hostVars /\ UNCHANGED guestVars

NextSelector == FromStr \/ ToString \/ Reparse \/ IntoRpcType

SpecSelector == InitSelector /\ [][NextSelector]_vars

(***************************************************************************)
(* Properties of the selector machine                                      *)
(***************************************************************************)
Tags == {StrLatest, StrParent, StrSafe, StrFinalized}

TagOf(s) ==
    IF s = StrLatest THEN Latest
    ELSE IF s = StrParent THEN Parent
    ELSE IF s = StrSafe THEN Safe
    ELSE Finalized

HexChars == { LowerHex[i] : i \in 1 .. 16 } \cup { UpperHex[i] : i \in 1 .. 16 }

HasPrefix0x(s) == Len(s) >= 2 /\ SubSeq(s, 1, 2) = Str0x

\* the grammar "0x" HEX: the prefix, then one or more hexadecimal digits
IsHexLiteral(s) ==
    /\ Len(s) >= 3
    /\ HasPrefix0x(s)
    /\ \A i \in 3 .. Len(s) : s[i] \in HexChars

\* the grammar "latest" | "parent" | "safe" | "finalized" | "0x" HEX
InGrammar(s) == s \in Tags \/ IsHexLiteral(s)

\* the digits of a hex literal that count: those from the first non-zero one
SignificantFrom(s) ==
    IF \E i \in 3 .. Len(s) : s[i] # "0"
    THEN CHOOSE i \in 3 .. Len(s) :
            s[i] # "0" /\ \A j \in 3 .. i - 1 : s[j] = "0"
    ELSE Len(s) + 1

FitsU64(s) == Len(s) - SignificantFrom(s) + 1 <= U64Nibbles

\* the value a hex literal denotes, as a u64 (for a literal that fits)
LiteralValue(s) ==
    LET k == Len(s) - SignificantFrom(s) + 1
    IN  [i \in 1 .. U64Nibbles |->
            IF i <= U64Nibbles - k THEN 0
            ELSE ToDigit(s[Len(s) - (U64Nibbles - i)])]

\* C6: resolving Parent asks the provider for the height: an error of the
\* provider or a height of 0 gives an error and no block, a height h > 0
\* gives exactly Number(h - 1) (the m with m + 1 = h); Latest, Safe,
\* Finalized and Number(n) resolve to the RPC selector of the same name.
C6_ParentResolution ==
    (rpc # None) =>
        LET b      == parsed[2]
            latest == rpc[1]
            r      == rpc[2]
        IN  /\ (b = Parent /\ IsErr(latest)) => IsErr(r)
            /\ (b = Parent /\ latest = Ok(U64Zero)) => IsErr(r)
            /\ (b = Parent /\ IsOk(latest) /\ latest[2] # U64Zero) =>
                  /\ IsOk(r) /\ r[2][2] = "Number"
                  /\ CheckedAddDigit(r[2][3], 1) = Ok(latest[2])
            /\ (b = Latest) => r = Ok(RpcLatest)
            /\ (b = Safe) => r = Ok(RpcSafe)
            /\ (b = Finalized) => r = Ok(RpcFinalized)
            /\ (b[1] = "Number") => r = Ok(RpcNumber(b[2]))

\* "parent" resolved at height 0x100 gave Number(0xff)
C6_Witness ==
    /\ str = StrParent /\ rpc # None
    /\ rpc[1] = Ok(U64Of(256))
    /\ rpc[2] = Ok(RpcNumber(U64Of(255)))

\* C7: from_str accepts exactly the grammar: a string of the grammar whose
\* value fits 64 bits parses to its selector, every other string is an error.
C7_ExactGrammar ==
    (parsed # None) =>
        /\ IsOk(parsed) <=> (InGrammar(str) /\ (IsHexLiteral(str) => FitsU64(str)))
        /\ (str \in Tags) => parsed = Ok(TagOf(str))
        /\ (IsHexLiteral(str) /\ FitsU64(str)) =>
              parsed = Ok(Number(LiteralValue(str)))

\* C8: a string that is no tag and does not start with "0x" is rejected with
\* the missing-hex-prefix error, so "255" never parses to a selector.
C8_MissingPrefix ==
    (parsed # None /\ str \notin Tags /\ ~ HasPrefix0x(str)) =>
        parsed = Err("HexStringMissingPrefix")

\* "255" was parsed and rejected
C8_Witness ==
    /\ str = <<"2","5","5">>
    /\ parsed = Err("HexStringMissingPrefix")

(***************************************************************************)
(* The host environment: HostEvmEnv<D, H, C>                               *)
(***************************************************************************)
Some(v) == <<"Some", v>>

\* the commitment strategies: the type parameter C of HostCommit<C>
CommitTypes == {"Block", "Beacon", "History"}

\* HostCommit.inner for each strategy
InnerOf(c) ==
    IF c = "Block" THEN "unit"
    ELSE IF c = "Beacon" THEN "beacon_commit"
    ELSE "history_commit"

MaxFacts == 2
MaxBlock == 2
MaxTime  == 2

Headers == [number : 0 .. MaxBlock, timestamp : 1 .. MaxTime]

\* ChainSpec values: a chain id, a digest and fork conditions in ascending
\* order of SpecId; the second has no fork before block 2
ChainSpecs ==
    { [chain_id |-> "chain-1", digest |-> "digest-1",
       forks |-> << [spec_id |-> "MERGE",    kind |-> "Block",     at |-> 0],
                    [spec_id |-> "SHANGHAI", kind |-> "Timestamp", at |-> 2],
                    [spec_id |-> "CANCUN",   kind |-> "TBD",       at |-> 0] >>],
      [chain_id |-> "chain-5", digest |-> "digest-5",
       forks |-> << [spec_id |-> "SHANGHAI", kind |-> "Block",     at |-> 2] >>] }

\* ForkCondition::active
ForkActive(fork, number, timestamp) ==
    IF fork.kind = "Block" THEN number >= fork.at
    ELSE IF fork.kind = "Timestamp" THEN timestamp >= fork.at
    ELSE FALSE

\* ChainSpec::active_fork: the last fork in SpecId order that is active
active_fork(cs, number, timestamp) ==
    LET active == { i \in 1 .. Len(cs.forks) :
                        ForkActive(cs.forks[i], number, timestamp) }
    IN  IF active = {} THEN None
        ELSE Some(cs.forks[CHOOSE i \in active : \A j \in active : j <= i].spec_id)

\* Option::take on the database slot: (the value taken, the slot left behind)
TakeDbAliased(slot) == <<slot, slot>>

TakeDb(slot) == <<slot, None>>

\* a method taking self by value leaves the caller without the environment
ConsumeKeep(e) == e

Consume(e) == [e EXCEPT !.state = "consumed", !.db = None]

\* a panic unwinding out of a method that took self by value drops it
Unwound(e) == [e EXCEPT !.state = "dropped", !.db = None]

\* whether the blocking task holds the database
WorkerHoldsDb == worker.db # None

Op(name, arg, result) ==
    [op |-> name, arg |-> arg, result |-> result, busy |-> WorkerHoldsDb]

InitHost ==
    /\ env \in { [state |-> "live", commit |-> c, db |-> Some(0), header |-> h,
                  chain_id |-> "chain-default", spec_id |-> "spec-default",
                  config_id |-> "digest-default", inner |-> InnerOf(c)] :
                 c \in CommitTypes, h \in Headers }
    /\ worker = NoWorker /\ fut = "none"
    /\ outputs = <<>> /\ ioLog = <<>> /\ lastOp = NoOp /\ dbLife = "owned"
    /\ SelectorIdle
    /\ GuestIdle

\* the caller may use the environment: it owns it and no spawn_with_db
\* future borrows it mutably
EnvFree == env.state = "live" /\ fut = "none"

\* spawn_with_db, first poll: take the database out of the slot and move it
\* into a blocking task, then await the task. unwrap() on an empty slot
\* panics; the caller's frames unwind, and the environment is dropped with
\* them unless it is owned outside the frame that catches the panic.
SpawnWithDb_Poll ==
    /\ EnvFree
    /\ LET t == TakeDb(env.db)
       IN  IF t[1] = None
           THEN /\ \E caught \in BOOLEAN :
                      env' = IF caught THEN env ELSE Unwound(env)
                /\ lastOp' = Op("spawn_with_db", None, "panic")
                /\ UNCHANGED <<worker, fut>>
           ELSE /\ env' = [env EXCEPT !.db = t[2]]
                /\ worker' = [db |-> t[1], phase |-> "running", attached |-> TRUE]
                /\ fut' = "pending"
                /\ lastOp' = Op("spawn_with_db", None, "pending")
    /\ UNCHANGED <<outputs, ioLog, dbLife>>
    /\ UNCHANGED selVars /\ UNCHANGED guestVars

\* the closure f(&mut db) runs on the blocking thread and returns; it may
\* have recorded a new fact. The output (result, db) waits in the JoinHandle,
\* or is dropped when the JoinHandle is gone.
Worker_Return ==
    /\ worker.phase = "running"
    /\ \E k \in 0 .. 1 :
          /\ worker.db[2] + k <= MaxFacts
          /\ IF worker.attached
             THEN /\ worker' = [worker EXCEPT !.db = Some(worker.db[2] + k),
                                              !.phase = "returned"]
                  /\ UNCHANGED dbLife
             ELSE /\ worker' = NoWorker
                  /\ dbLife' = "dropped"
    /\ UNCHANGED <<env, fut, outputs, ioLog, lastOp>>
    /\ UNCHANGED selVars /\ UNCHANGED guestVars

\* the closure panics: the database it captured is dropped in the unwinding
Worker_Panic ==
    /\ worker.phase = "running"
    /\ worker' = IF worker.attached
                 THEN [worker EXCEPT !.db = None, !.phase = "panicked"]
                 ELSE NoWorker
    /\ dbLife' = "dropped"
    /\ UNCHANGED <<env, fut, outputs, ioLog, lastOp>>
    /\ UNCHANGED selVars /\ UNCHANGED guestVars

\* spawn_with_db resumes after the await with the task's output: the
\* database is put back and the closure's result returned
SpawnWithDb_Resume ==
    /\ fut = "pending" /\ worker.phase = "returned"
    /\ env' = [env EXCEPT !.db = worker.db]
    /\ worker' = NoWorker
    /\ fut' = "none"
    /\ lastOp' = Op("spawn_with_db", None, "returned")
    /\ UNCHANGED <<outputs, ioLog, dbLife>>
    /\ UNCHANGED selVars /\ UNCHANGED guestVars

\* spawn_with_db resumes with a JoinError: expect("DB execution panicked")
\* panics, the slot stays empty
SpawnWithDb_ResumePanicked ==
    /\ fut = "pending" /\ worker.phase = "panicked"
    /\ \E caught \in BOOLEAN : env' = IF caught THEN env ELSE Unwound(env)
    /\ worker' = NoWorker
    /\ fut' = "none"
    /\ lastOp' = Op("spawn_with_db", None, "panic")
    /\ UNCHANGED <<outputs, ioLog, dbLife>>
    /\ UNCHANGED selVars /\ UNCHANGED guestVars

\* the caller drops the spawn_with_db future at its await point (a timeout,
\* a select!): the JoinHandle is dropped, a running blocking task goes on
\* detached, a finished task's output is dropped. The mutable borrow ends.
SpawnWithDb_Cancel ==
    /\ fut = "pending" /\ worker.phase # "none"
    /\ fut' = "none"
    /\ IF worker.phase = "running"
       THEN /\ worker' = [worker EXCEPT !.attached = FALSE]
            /\ UNCHANGED dbLife
       ELSE /\ worker' = NoWorker
            /\ dbLife' = "dropped"
    /\ lastOp' = Op("spawn_with_db", None, "cancelled")
    /\ UNCHANGED <<env, outputs, ioLog>>
    /\ UNCHANGED selVars /\ UNCHANGED guestVars

\* a variant of with_chain_spec that keeps the previous spec id when no
\* fork is active
with_chain_spec_lenient(e, cs) ==
    LET fork == active_fork(cs, e.header.number, e.header.timestamp)
    IN  Ok([e EXCEPT !.chain_id = cs.chain_id,
                     !.spec_id = IF fork = None THEN e.spec_id ELSE fork[2],
                     !.config_id = cs.digest])

\* a variant of with_chain_spec that leaves the commit's config_id as it was
with_chain_spec_stale_config(e, cs) ==
    LET fork == active_fork(cs, e.header.number, e.header.timestamp)
    IN  IF fork = None THEN <<"panic">>
        ELSE Ok([e EXCEPT !.chain_id = cs.chain_id,
                          !.spec_id = fork[2]])

\* HostEvmEnv::with_chain_spec(self, chain_spec): Ok(the environment
\* returned), or a panic from unwrap() when no fork is active
with_chain_spec(e, cs) ==
    LET fork == active_fork(cs, e.header.number, e.header.timestamp)
    IN  IF fork = None THEN <<"panic">>
        ELSE Ok([e EXCEPT !.chain_id = cs.chain_id,
                          !.spec_id = fork[2],
                          !.config_id = cs.digest])

WithChainSpec ==
    /\ EnvFree
    /\ \E cs \in ChainSpecs :
          LET r == with_chain_spec(env, cs)
          IN  IF IsOk(r)
              THEN /\ env' = r[2]
                   /\ lastOp' = Op("with_chain_spec", cs, "returned")
                   /\ UNCHANGED dbLife
              ELSE /\ env' = Unwound(env)
                   /\ lastOp' = Op("with_chain_spec", cs, "panic")
                   /\ dbLife' = IF env.db # None THEN "dropped" ELSE dbLife
    /\ UNCHANGED <<worker, fut, outputs, ioLog>>
    /\ UNCHANGED selVars /\ UNCHANGED guestVars

\* BlockInput::from_proof_db(db, header).await: fetches the proofs for the
\* facts the database recorded; rpcOk is whether the provider answered
from_proof_db(db, header, rpcOk) ==
    IF rpcOk THEN Ok([header |-> header, facts |-> db])
    ELSE Err("provider")

\* BeaconCommit::from_header(header, provider, url).await
beacon_from_header(header, apiOk) ==
    IF apiOk THEN Ok("beacon_commit") ELSE Err("beacon api")

\* ComposeInput::new(input, commit)
ComposeInput(input, commit) == [input |-> input, commit |-> commit]

\* the three into_input bodies and into_beacon_input: the value returned (or
\* a panic) and the I/O issued, in order. The database slot is unwrapped
\* before any request is made.
\* a variant of the Block into_input that goes on with an empty database
\* when the slot is empty
into_input_block_default_db(e, rpcOk) ==
    LET db    == IF e.db = None THEN 0 ELSE e.db[2]
        input == from_proof_db(db, e.header, rpcOk)
    IN  [result |-> IF IsOk(input) THEN Ok(<<"Block", input[2]>>) ELSE input,
         io |-> <<"eth_getProof">>]

into_input_block(e, rpcOk) ==
    IF e.db = None THEN [result |-> <<"panic">>, io |-> <<>>]
    ELSE LET input == from_proof_db(e.db[2], e.header, rpcOk)
         IN  [result |-> IF IsOk(input) THEN Ok(<<"Block", input[2]>>) ELSE input,
              io |-> <<"eth_getProof">>]

into_input_beacon(e, rpcOk) ==
    IF e.db = None THEN [result |-> <<"panic">>, io |-> <<>>]
    ELSE LET input == from_proof_db(e.db[2], e.header, rpcOk)
         IN  [result |-> IF IsOk(input)
                         THEN Ok(<<"Beacon", ComposeInput(input[2], e.inner)>>)
                         ELSE input,
              io |-> <<"eth_getProof">>]

\* a variant of the History into_input that wraps its result as Beacon
into_input_history_as_beacon(e, rpcOk) ==
    IF e.db = None THEN [result |-> <<"panic">>, io |-> <<>>]
    ELSE LET input == from_proof_db(e.db[2], e.header, rpcOk)
         IN  [result |-> IF IsOk(input)
                         THEN Ok(<<"Beacon", ComposeInput(input[2], e.inner)>>)
                         ELSE input,
              io |-> <<"eth_getProof">>]

into_input_history(e, rpcOk) ==
    IF e.db = None THEN [result |-> <<"panic">>, io |-> <<>>]
    ELSE LET input == from_proof_db(e.db[2], e.header, rpcOk)
         IN  [result |-> IF IsOk(input)
                         THEN Ok(<<"History", ComposeInput(input[2], e.inner)>>)
                         ELSE input,
              io |-> <<"eth_getProof">>]

\* into_beacon_input: self.db() is evaluated first (it unwraps the slot),
\* then the beacon commit is fetched, then the proofs
into_beacon_input(e, apiOk, rpcOk) ==
    IF e.db = None THEN [result |-> <<"panic">>, io |-> <<>>]
    ELSE LET commit == beacon_from_header(e.header, apiOk)
         IN  IF IsErr(commit) THEN [result |-> commit, io |-> <<"beacon_api">>]
             ELSE LET input == from_proof_db(e.db[2], e.header, rpcOk)
                  IN  [result |-> IF IsOk(input)
                                  THEN Ok(<<"Beacon", ComposeInput(input[2], commit[2])>>)
                                  ELSE input,
                       io |-> <<"beacon_api", "eth_getProof">>]

\* what a finalization leaves: the environment is moved into the call, the
\* database is drained by from_proof_db or dropped with the environment
Finalize(name, r) ==
    /\ env' = Consume(env)
    /\ outputs' = Append(outputs, [op |-> name, result |-> r.result])
    /\ ioLog' = ioLog \o r.io
    /\ lastOp' = Op(name, None, r.result[1])
    /\ dbLife' = IF env.db = None THEN dbLife
                 ELSE IF "eth_getProof" \in { r.io[i] : i \in 1 .. Len(r.io) }
                 THEN "drained"
                 ELSE "dropped"
    /\ UNCHANGED <<worker, fut>>
    /\ UNCHANGED selVars /\ UNCHANGED guestVars

\* into_input of HostEvmEnv<AlloyDb<T, N, P>, H, ()>
IntoInput_Block ==
    /\ EnvFree /\ env.commit = "Block"
    /\ \E rpcOk \in BOOLEAN :
          Finalize("into_input", into_input_block(env, rpcOk))

\* into_input of EthHostEvmEnv<AlloyDb<T, Ethereum, P>, BeaconCommit>
IntoInput_Beacon ==
    /\ EnvFree /\ env.commit = "Beacon"
    /\ \E rpcOk \in BOOLEAN :
          Finalize("into_input", into_input_beacon(env, rpcOk))

\* into_input of EthHostEvmEnv<AlloyDb<T, Ethereum, P>, HistoryCommit>
IntoInput_History ==
    /\ EnvFree /\ env.commit = "History"
    /\ \E rpcOk \in BOOLEAN :
          Finalize("into_input", into_input_history(env, rpcOk))

\* into_beacon_input of EthHostEvmEnv<AlloyDb<T, Ethereum, P>, ()>
IntoBeaconInput ==
    /\ EnvFree /\ env.commit = "Block"
    /\ \E apiOk \in BOOLEAN, rpcOk \in BOOLEAN :
          Finalize("into_beacon_input", into_beacon_input(env, apiOk, rpcOk))

NextHost ==
    \/ SpawnWithDb_Poll
    \/ Worker_Return
    \/ Worker_Panic
    \/ SpawnWithDb_Resume
    \/ SpawnWithDb_ResumePanicked
    \/ SpawnWithDb_Cancel
    \/ WithChainSpec
    \/ IntoInput_Block
    \/ IntoInput_Beacon
    \/ IntoInput_History
    \/ IntoBeaconInput

SpecHost == InitHost /\ [][NextHost]_vars

(***************************************************************************)
(* Properties of the host environment                                      *)
(***************************************************************************)
\* who holds the ProofDb value
DbOwners ==
    (IF env.db # None THEN {"env"} ELSE {}) \cup
    (IF worker.db # None THEN {"worker"} ELSE {})

Finalizations == {"into_input", "into_beacon_input"}

\* C3: when control has left spawn_with_db (a return, a panic, the future
\* dropped) and the environment can still be used, its database slot holds
\* the database again.
C3_DbRestoredOnExit ==
    (lastOp.op = "spawn_with_db" /\ fut = "none" /\ env.state = "live") =>
        env.db # None

\* C4: the database never has two owners, has exactly one as long as it has
\* not been dropped or drained, and an operation started on the environment
\* while the worker holds the database panics without touching it.
C4_ExclusiveOwnership ==
    /\ Cardinality(DbOwners) <= 1
    /\ (dbLife = "owned") => Cardinality(DbOwners) = 1
    /\ (worker.db # None) => env.db = None
    /\ (lastOp.busy /\ lastOp.op \in Finalizations) => lastOp.result = "panic"
    /\ (lastOp.busy /\ lastOp.op = "spawn_with_db") => lastOp.result # "pending"

\* an operation was tried on the environment while the detached worker held
\* the database, and panicked
C4_Witness ==
    /\ worker.db # None /\ env.db = None
    /\ lastOp.busy /\ lastOp.result = "panic"

\* C5 as stated: every Input a finalization returns has the variant of the
\* environment's commitment strategy (Block, Beacon, History).
C5_VariantIsStrategy ==
    \A i \in 1 .. Len(outputs) :
        IsOk(outputs[i].result) => outputs[i].result[2][1] = env.commit

\* C5 amended: into_input returns the variant of the environment's strategy,
\* with the environment's own commit as payload; into_beacon_input exists
\* only on a Block-committed environment and returns EvmInput::Beacon with
\* the commit it fetched from the Beacon API before the proofs.
C5_VariantByStrategyAndOperation ==
    \A i \in 1 .. Len(outputs) :
        LET o == outputs[i]
        IN  /\ (o.op = "into_beacon_input") => env.commit = "Block"
            /\ IsOk(o.result) =>
                  /\ (o.op = "into_input") =>
                        /\ o.result[2][1] = env.commit
                        /\ (env.commit # "Block") =>
                              o.result[2][2].commit = InnerOf(env.commit)
                  /\ (o.op = "into_beacon_input") =>
                        /\ o.result[2][1] = "Beacon"
                        /\ ioLog = <<"beacon_api", "eth_getProof">>

\* a Block-committed environment returned EvmInput::Beacon
C5_Witness ==
    /\ env.commit = "Block" /\ Len(outputs) = 1
    /\ outputs[1].op = "into_beacon_input"
    /\ IsOk(outputs[1].result) /\ outputs[1].result[2][1] = "Beacon"

\* C9: with_chain_spec panics and yields no environment when the ChainSpec
\* has no fork active at the header's (number, timestamp); otherwise it
\* returns the environment with the ChainSpec's chain id and the spec id of
\* the last active fork.
C9_WithChainSpec ==
    (lastOp.op = "with_chain_spec") =>
        LET cs     == lastOp.arg
            active == { i \in 1 .. Len(cs.forks) :
                          ForkActive(cs.forks[i], env.header.number,
                                     env.header.timestamp) }
        IN  /\ (active = {}) =>
                  /\ lastOp.result = "panic"
                  /\ env.state = "dropped"
            /\ (active # {}) =>
                  /\ lastOp.result = "returned"
                  /\ env.state = "live"
                  /\ env.chain_id = cs.chain_id
                  /\ \E i \in active :
                        /\ \A j \in active : j <= i
                        /\ env.spec_id = cs.forks[i].spec_id

\* with_chain_spec was called with a ChainSpec that has a gap at the header
C9_Witness ==
    /\ lastOp.op = "with_chain_spec" /\ lastOp.result = "panic"
    /\ env.state = "dropped"

\* C10: once a finalization has been invoked on an environment, whatever it
\* returned, nothing more happens to the environment: no operation changes
\* it, returns anything or issues I/O, and at most one finalization ran.
C10_FinalizationConsumes ==
    [][ /\ (env.state = "consumed") =>
              UNCHANGED <<env, outputs, ioLog, fut, lastOp>>
        /\ Len(outputs') <= 1 ]_vars

\* a finalization returned an Input and the environment is gone
C10_Witness ==
    /\ env.state = "consumed" /\ Len(outputs) = 1
    /\ IsOk(outputs[1].result)

(***************************************************************************)
(* The token-stats guest                                                   *)
(***************************************************************************)
\* image ids of builds of this guest, and of some other program
GuestImages  == {"P", "Q"}
ForeignImage == "R"
Digests      == GuestImages \cup {ForeignImage}

\* the blocks an Input can prove: the commitment the environment yields for
\* the block and what getSupplyRate returns on its state (2^36 and 2^40 per
\* second; the second, times SECONDS_PER_YEAR, exceeds 64 bits)
ProvenBlocks ==
    { [commitment |-> "c1", supplyRate |-> U64Shifted(1, 9)],
      [commitment |-> "c2", supplyRate |-> U64Shifted(1, 10)] }

Commitments == { b.commitment : b \in ProvenBlocks }

SECONDS_PER_YEAR == 60 * 60 * 24 * 365

\* n * c on 64 bits, from the least significant nibble: the wrapped product
\* and whether the mathematical product exceeds 64 bits
RECURSIVE MulFrom(_, _, _, _)
MulFrom(n, c, i, carry) ==
    IF i = 0 THEN [value |-> n, overflow |-> carry # 0]
    ELSE LET t == n[i] * c + carry
         IN  MulFrom([n EXCEPT ![i] = t % 16], c, i - 1, t \div 16)

U64Mul(n, c) == MulFrom(n, c, U64Nibbles, 0)

\* the application accumulator: Stats::default() and Stats::add_supply_rate,
\* kept as the samples added so far
StatsDefault == <<>>

add_supply_rate(stats, rate) == Append(stats, rate)

\* Journal { commitment, stats, selfImageID } and its ABI codec
Journal(commitment, stats, selfImageID) ==
    [commitment |-> commitment, stats |-> stats, selfImageID |-> selfImageID]

abi_encode(j) == <<j.commitment, j.stats, j.selfImageID>>

abi_decode(bytes) ==
    IF Len(bytes) = 3 /\ bytes[1] \in Commitments /\ bytes[3] \in Digests
    THEN Ok(Journal(bytes[1], bytes[2], bytes[3]))
    ELSE Err("abi")

\* env::verify(image_id, journal): succeeds when a receipt of that image
\* with that journal exists
env_verify(rs, image_id, journal) ==
    \E r \in rs : r.image = image_id /\ r.journal = journal

\* what the host and the proven state answer during one run; an answer is
\* consulted only when the run gets to it
Worlds ==
    [ linkOk : BOOLEAN,            \* input.link(&commitment) finds the link
      envOk : BOOLEAN,             \* input.into_env() accepts the proofs
      forkOk : BOOLEAN,            \* the chain spec has a fork for the header
      utilizationOk : BOOLEAN,     \* getUtilization() returns
      supplyRateOk : BOOLEAN,      \* getSupplyRate() returns
      block : ProvenBlocks,        \* the block the Input proves
      overflowChecks : BOOLEAN ]   \* the build panics on arithmetic overflow

\* a run that stopped in a fatal condition at step `stage`
Fatal(steps, stage, start) ==
    [steps |-> steps, stage |-> stage, start |-> start, sample |-> None,
     journal |-> None]

\* a variant of the assumption checks that trusts the journal unverified
check_assumption_unverified(rs, self_image_id, journal) ==
    LET decoded == abi_decode(journal)
    IN  IF IsErr(decoded) THEN [steps |-> <<"verify">>, stage |-> "decode"]
        ELSE IF decoded[2].selfImageID # self_image_id
        THEN [steps |-> <<"verify", "decode">>, stage |-> "identity"]
        ELSE [steps |-> <<"verify", "decode", "identity">>, stage |-> "ok",
              journal |-> decoded[2]]

\* a variant of the assumption checks without the comparison of the ids
check_assumption_any_identity(rs, self_image_id, journal) ==
    IF ~ env_verify(rs, self_image_id, journal)
    THEN [steps |-> <<>>, stage |-> "verify"]
    ELSE LET decoded == abi_decode(journal)
         IN  IF IsErr(decoded) THEN [steps |-> <<"verify">>, stage |-> "decode"]
             ELSE [steps |-> <<"verify", "decode", "identity">>, stage |-> "ok",
                   journal |-> decoded[2]]

\* main, lines 34-42: verify the assumption, decode it, compare the ids
check_assumption(rs, self_image_id, journal) ==
    IF ~ env_verify(rs, self_image_id, journal)
    THEN [steps |-> <<>>, stage |-> "verify"]
    ELSE LET decoded == abi_decode(journal)
         IN  IF IsErr(decoded) THEN [steps |-> <<"verify">>, stage |-> "decode"]
             ELSE IF decoded[2].selfImageID # self_image_id
             THEN [steps |-> <<"verify", "decode">>, stage |-> "identity"]
             ELSE [steps |-> <<"verify", "decode", "identity">>, stage |-> "ok",
                   journal |-> decoded[2]]

\* a variant of the merge that forgets the decoded accumulator
carried_stats_default(decoded) == StatsDefault

\* main, line 45: the accumulator carried forward from the prior journal
carried_stats(decoded) == decoded.stats

\* a variant of the run's body that embeds the image id known at build time
\* instead of the input's
run_body_fixed_identity(steps, stats, self_image_id, w) ==
    IF ~ w.envOk THEN Fatal(steps, "into_env", stats)
    ELSE IF ~ w.forkOk THEN Fatal(steps \o <<"into_env">>, "with_chain_spec", stats)
    ELSE IF ~ w.utilizationOk
    THEN Fatal(steps \o <<"into_env", "with_chain_spec">>, "getUtilization", stats)
    ELSE IF ~ w.supplyRateOk
    THEN Fatal(steps \o <<"into_env", "with_chain_spec", "getUtilization">>,
               "getSupplyRate", stats)
    ELSE LET done   == steps \o <<"into_env", "with_chain_spec",
                                  "getUtilization", "getSupplyRate">>
             annual == U64Mul(w.block.supplyRate, SECONDS_PER_YEAR)
         IN  IF annual.overflow /\ w.overflowChecks
             THEN Fatal(done, "multiply", stats)
             ELSE [steps |-> done \o <<"multiply", "add_supply_rate", "commit">>,
                   stage |-> "commit",
                   start |-> stats,
                   sample |-> Some(annual.value),
                   journal |-> Some(abi_encode(
                       Journal(w.block.commitment,
                               add_supply_rate(stats, annual.value),
                               "P")))]

\* a variant of the run's body that takes a failed getSupplyRate call as a
\* rate of zero and goes on to commit
run_body_default_rate(steps, stats, self_image_id, w) ==
    IF ~ w.envOk THEN Fatal(steps, "into_env", stats)
    ELSE IF ~ w.forkOk THEN Fatal(steps \o <<"into_env">>, "with_chain_spec", stats)
    ELSE IF ~ w.utilizationOk
    THEN Fatal(steps \o <<"into_env", "with_chain_spec">>, "getUtilization", stats)
    ELSE LET rate   == IF w.supplyRateOk THEN w.block.supplyRate ELSE U64Zero
             called == IF w.supplyRateOk THEN <<"getSupplyRate">> ELSE <<>>
             done   == steps \o <<"into_env", "with_chain_spec",
                                  "getUtilization">> \o called
             annual == U64Mul(rate, SECONDS_PER_YEAR)
         IN  IF annual.overflow /\ w.overflowChecks
             THEN Fatal(done, "multiply", stats)
             ELSE [steps |-> done \o <<"multiply", "add_supply_rate", "commit">>,
                   stage |-> "commit",
                   start |-> stats,
                   sample |-> Some(annual.value),
                   journal |-> Some(abi_encode(
                       Journal(w.block.commitment,
                               add_supply_rate(stats, annual.value),
                               self_image_id)))]

\* main, lines 53-80: build the environment, run the two calls, add the
\* annual rate and commit the journal
run_body(steps, stats, self_image_id, w) ==
    IF ~ w.envOk THEN Fatal(steps, "into_env", stats)
    ELSE IF ~ w.forkOk THEN Fatal(steps \o <<"into_env">>, "with_chain_spec", stats)
    ELSE IF ~ w.utilizationOk
    THEN Fatal(steps \o <<"into_env", "with_chain_spec">>, "getUtilization", stats)
    ELSE IF ~ w.supplyRateOk
    THEN Fatal(steps \o <<"into_env", "with_chain_spec", "getUtilization">>,
               "getSupplyRate", stats)
    ELSE LET done   == steps \o <<"into_env", "with_chain_spec",
                                  "getUtilization", "getSupplyRate">>
             annual == U64Mul(w.block.supplyRate, SECONDS_PER_YEAR)
         IN  IF annual.overflow /\ w.overflowChecks
             THEN Fatal(done, "multiply", stats)
             ELSE [steps |-> done \o <<"multiply", "add_supply_rate", "commit">>,
                   stage |-> "commit",
                   start |-> stats,
                   sample |-> Some(annual.value),
                   journal |-> Some(abi_encode(
                       Journal(w.block.commitment,
                               add_supply_rate(stats, annual.value),
                               self_image_id)))]

\* input.link(&commitment): returns when the input's chain connects to the
\* prior commitment, aborts the run when the link is broken
link(w, commitment) ==
    IF w.linkOk THEN Ok(commitment) ELSE <<"panic">>

\* a variant of main that goes on whatever input.link found
main_link_ignored(rs, self_image_id, assumption, w) ==
    IF assumption = None
    THEN run_body(<<>>, StatsDefault, self_image_id, w)
    ELSE LET a == check_assumption(rs, self_image_id, assumption[2])
         IN  IF a.stage # "ok" THEN Fatal(a.steps, a.stage, None)
             ELSE run_body(a.steps \o <<"link">>, carried_stats(a.journal),
                           self_image_id, w)

\* main: the whole guest run on Input { input, self_image_id, assumption }
\* with the receipts rs known to the verifier
main(rs, self_image_id, assumption, w) ==
    IF assumption = None
    THEN run_body(<<>>, StatsDefault, self_image_id, w)
    ELSE LET a == check_assumption(rs, self_image_id, assumption[2])
         IN  IF a.stage # "ok" THEN Fatal(a.steps, a.stage, None)
             ELSE IF ~ IsOk(link(w, a.journal.commitment))
             THEN Fatal(a.steps, "link", None)
             ELSE run_body(a.steps \o <<"link">>, carried_stats(a.journal),
                           self_image_id, w)

MaxReceipts == 2

DefaultBlock == CHOOSE b \in ProvenBlocks : b.commitment = "c1"

DefaultWorld ==
    [linkOk |-> TRUE, envOk |-> TRUE, forkOk |-> TRUE, utilizationOk |-> TRUE,
     supplyRateOk |-> TRUE, block |-> DefaultBlock, overflowChecks |-> FALSE]

\* the worlds that differ in an answer some run consults: an answer that
\* comes after the first failing one keeps its default
CanonicalWorlds ==
    { w \in Worlds :
        LET overflow == U64Mul(w.block.supplyRate, SECONDS_PER_YEAR).overflow
        IN  /\ ~ w.linkOk => w.envOk
            /\ ~ w.envOk => w.forkOk
            /\ ~ w.forkOk => w.utilizationOk
            /\ ~ w.utilizationOk => w.supplyRateOk
            /\ ~ (w.linkOk /\ w.envOk /\ w.forkOk /\ w.utilizationOk
                      /\ w.supplyRateOk) =>
                  (w.block = DefaultBlock /\ ~ w.overflowChecks)
            /\ ~ overflow => ~ w.overflowChecks }

\* journals another program may have committed: bytes that are no Journal, a
\* Journal naming that program, a Journal naming this guest
ForeignJournals ==
    { <<"junk">>,
      abi_encode(Journal("c1", <<U64Max>>, ForeignImage)),
      abi_encode(Journal("c1", <<U64Max>>, "P")) }

\* a well-formed journal no run ever committed
ForgedJournal == abi_encode(Journal("c2", StatsDefault, "P"))

\* what the host can put in Input.assumption
Assumptions(rs) ==
    {None} \cup { Some(r.journal) : r \in rs } \cup {Some(ForgedJournal)}

InitGuest ==
    /\ receipts = {}
    /\ lastRun = NoRun
    /\ SelectorIdle
    /\ HostIdle

\* a receipt of a guest run; rooted and chain record the runs behind it: the
\* samples of the accepted runs since a run without assumption, if any
Receipt(prog, out, prior) ==
    [image |-> prog, journal |-> out.journal[2],
     rooted |-> prior.rooted,
     chain |-> Append(prior.chain, out.sample[2])]

NoPrior == [rooted |-> TRUE, chain |-> <<>>]

\* the runs behind the receipt that env::verify found
Priors(rs, image_id, journal) ==
    IF env_verify(rs, image_id, journal)
    THEN { [rooted |-> r.rooted, chain |-> r.chain] :
             r \in { x \in rs : x.image = image_id /\ x.journal = journal } }
    ELSE { [rooted |-> FALSE, chain |-> <<>>] }

\* one run of the guest under image id prog: the prover executes main on the
\* input the host wrote; a run that commits yields a receipt
GuestRun ==
    /\ Cardinality(receipts) < MaxReceipts
    /\ \E prog \in GuestImages, sid \in Digests,
          assumption \in Assumptions(receipts), w \in CanonicalWorlds :
          LET out == main(receipts, sid, assumption, w)
              checksFail == assumption # None
                            /\ check_assumption(receipts, sid, assumption[2]).stage # "ok"
          IN  /\ checksFail => w = DefaultWorld
              /\ assumption = None => w.linkOk
              /\ lastRun' = [prog |-> prog, self_image_id |-> sid,
                             assumption |-> assumption,
                             links |-> w.linkOk,
                             steps |-> out.steps, stage |-> out.stage,
                             start |-> out.start, sample |-> out.sample,
                             journal |-> out.journal]
              /\ IF out.journal = None
                 THEN UNCHANGED receipts
                 ELSE IF assumption = None
                 THEN receipts' = receipts \cup {Receipt(prog, out, NoPrior)}
                 ELSE \E prior \in Priors(receipts, sid, assumption[2]) :
                         receipts' = receipts \cup {Receipt(prog, out, prior)}
    /\ UNCHANGED selVars /\ UNCHANGED hostVars

\* another program commits a journal of its choice
ForeignCommit ==
    /\ Cardinality(receipts) < MaxReceipts
    /\ \E j \in ForeignJournals :
          receipts' = receipts \cup
              {[image |-> ForeignImage, journal |-> j,
                rooted |-> FALSE, chain |-> <<>>]}
    /\ UNCHANGED lastRun
    /\ UNCHANGED selVars /\ UNCHANGED hostVars

NextGuest == GuestRun \/ ForeignCommit

SpecGuest == InitGuest /\ [][NextGuest]_vars

(***************************************************************************)
(* Properties of the guest                                                 *)
(***************************************************************************)
Decoded(bytes) == abi_decode(bytes)[2]

IdentitySteps == {"verify", "decode", "identity"}

\* the accumulator after the given samples, starting from the default
RECURSIVE StatsOver(_)
StatsOver(samples) ==
    IF samples = <<>> THEN StatsDefault
    ELSE add_supply_rate(StatsOver(SubSeq(samples, 1, Len(samples) - 1)),
                         samples[Len(samples)])

C2_AccumulatorCarried ==
    /\ (lastRun.journal # None) =>
          LET prior == IF lastRun.assumption = None THEN StatsDefault
                       ELSE Decoded(lastRun.assumption[2]).stats
          IN  /\ lastRun.start = prior
              /\ Decoded(lastRun.journal[2]).stats =
                    add_supply_rate(prior, lastRun.sample[2])
    /\ \A r \in receipts :
          r.rooted =>
              /\ r.image \in GuestImages
              /\ Len(r.chain) >= 1
              /\ Decoded(r.journal).stats = StatsOver(r.chain)

\* the second run of a chain committed an accumulator over two samples
C2_Witness ==
    /\ lastRun.assumption # None /\ lastRun.journal # None
    /\ \E r \in receipts :
          /\ r.journal = lastRun.journal[2]
          /\ r.rooted /\ Len(r.chain) = 2
          /\ Decoded(r.journal).stats = <<r.chain[1], r.chain[2]>>

\* the steps of a run that gets to its end, in program order
AssumptionSteps == <<"verify", "decode", "identity", "link">>

BodySteps ==
    <<"into_env", "with_chain_spec", "getUtilization", "getSupplyRate",
      "multiply", "add_supply_rate", "commit">>

FullSteps(assumption) ==
    IF assumption = None THEN BodySteps ELSE AssumptionSteps \o BodySteps

\* what the last run did, against the program order of its steps
StepsInOrder ==
    (lastRun.stage # "none") =>
        LET full == FullSteps(lastRun.assumption)
            n    == Len(lastRun.steps)
        IN  /\ n <= Len(full)
            /\ lastRun.steps = SubSeq(full, 1, n)
            /\ (lastRun.journal # None) <=> (lastRun.steps = full)
            /\ (lastRun.journal # None) =>
                  /\ lastRun.stage = "commit"
                  /\ lastRun.steps[n] = "commit"
                  /\ \A i \in 1 .. n - 1 : lastRun.steps[i] # "commit"
                  /\ \E r \in receipts :
                        r.image = lastRun.prog /\ r.journal = lastRun.journal[2]
            /\ (lastRun.journal = None) =>
                  /\ lastRun.stage = full[n + 1]
                  /\ lastRun.stage \notin {"add_supply_rate", "commit"}
                  /\ lastRun.sample = None
                  /\ \A i \in 1 .. n : lastRun.steps[i] # "commit"

\* C11: a run commits a journal only as the last of its steps, after all the
\* steps before it, in program order (with an assumption: verify, decode,
\* identity, link, then the environment and the calls); a run that fails at
\* a step did exactly the steps before that one and committed nothing: it
\* leaves the receipts as they were. A run that commits adds one receipt.
C11_CommitLastOrNothing ==
    /\ [] StepsInOrder
    /\ [][ (lastRun' # lastRun) =>
              IF lastRun'.journal = None
              THEN receipts' = receipts
              ELSE receipts' = receipts \cup
                       { r \in receipts' : /\ r.image = lastRun'.prog
                                           /\ r.journal = lastRun'.journal[2] }
                   /\ Cardinality(receipts' \ receipts) <= 1 ]_vars

\* a run with an assumption got through the four checks, built the
\* environment and failed in the second call: nothing was committed
C11_Witness ==
    /\ lastRun.assumption # None
    /\ lastRun.stage = "getSupplyRate"
    /\ lastRun.steps = AssumptionSteps \o <<"into_env", "with_chain_spec",
                                            "getUtilization">>
    /\ lastRun.journal = None

\* C12: a run whose assumption passes env::verify under the input's
\* self_image_id and decodes to a Journal with another selfImageID stops at
\* the equality assertion, after verify and decode, and commits no journal.
C12_IdentityMismatchFatal ==
    (lastRun.assumption # None) =>
        LET J   == lastRun.assumption[2]
            sid == lastRun.self_image_id
            d   == abi_decode(J)
        IN  (/\ env_verify(receipts, sid, J)
             /\ IsOk(d)
             /\ d[2].selfImageID # sid) =>
                /\ lastRun.stage = "identity"
                /\ lastRun.steps = <<"verify", "decode">>
                /\ lastRun.journal = None
                /\ lastRun.sample = None

\* a run of the guest was handed a journal that a run under the same image
\* committed with another identity embedded, and stopped at the assertion
C12_Witness ==
    /\ lastRun.assumption # None
    /\ lastRun.self_image_id \in GuestImages
    /\ lastRun.stage = "identity"
    /\ \E r \in receipts :
          /\ r.image = lastRun.self_image_id
          /\ r.journal = lastRun.assumption[2]
          /\ Decoded(r.journal).selfImageID \in GuestImages \ {lastRun.self_image_id}

\* C13: a run whose assumption got through verify, decode and the identity
\* check, and whose input does not link to the decoded commitment, stops at
\* input.link: it holds no accumulator to go on with, builds no environment,
\* makes no call and commits no journal.
C13_BrokenLinkFatal ==
    (lastRun.assumption # None /\ ~ lastRun.links) =>
        LET J   == lastRun.assumption[2]
            sid == lastRun.self_image_id
            d   == abi_decode(J)
        IN  (/\ env_verify(receipts, sid, J)
             /\ IsOk(d)
             /\ d[2].selfImageID = sid) =>
                /\ lastRun.stage = "link"
                /\ lastRun.steps = <<"verify", "decode", "identity">>
                /\ lastRun.start = None
                /\ lastRun.sample = None
                /\ lastRun.journal = None

\* a verified journal of the same identity with a non-empty accumulator was
\* handed to a run whose input does not link to it
C13_Witness ==
    /\ lastRun.assumption # None /\ ~ lastRun.links
    /\ lastRun.stage = "link"
    /\ \E r \in receipts :
          /\ r.image = lastRun.self_image_id
          /\ r.journal = lastRun.assumption[2]
          /\ Decoded(r.journal).selfImageID = lastRun.self_image_id
          /\ Decoded(r.journal).stats # StatsDefault

\* C14: a journal a run commits, with or without assumption, embeds the
\* self_image_id of the run's input; a run handed a journal that embeds its
\* self_image_id is not stopped by the equality assertion, and gets through
\* verify, decode and the assertion when the journal was committed under the
\* image that the identity names; a run that commits on an assumption embeds
\* the identity the assumption embeds, so the journals of a chain agree.
C14_JournalEmbedsIdentity ==
    /\ (lastRun.journal # None) =>
          Decoded(lastRun.journal[2]).selfImageID = lastRun.self_image_id
    /\ (lastRun.assumption # None) =>
          LET J   == lastRun.assumption[2]
              sid == lastRun.self_image_id
              d   == abi_decode(J)
          IN  /\ (IsOk(d) /\ d[2].selfImageID = sid) =>
                    lastRun.stage # "identity"
              /\ (/\ IsOk(d) /\ d[2].selfImageID = sid
                  /\ \E r \in receipts : r.image = sid /\ r.journal = J) =>
                    /\ lastRun.stage \notin IdentitySteps
                    /\ SubSeq(lastRun.steps, 1, 3) = <<"verify", "decode", "identity">>
              /\ (lastRun.journal # None) =>
                    /\ IsOk(d)
                    /\ Decoded(lastRun.journal[2]).selfImageID = d[2].selfImageID
    /\ \A r \in receipts :
          (r.image \in GuestImages) =>
              /\ IsOk(abi_decode(r.journal))
              /\ (Len(r.chain) >= 2) =>
                    \E q \in receipts :
                        /\ q.chain = SubSeq(r.chain, 1, Len(r.chain) - 1)
                        /\ Decoded(q.journal).selfImageID =
                               Decoded(r.journal).selfImageID

\* a run of Q without assumption committed a journal, and a following run of
\* Q accepted it and committed a journal with the same identity
C14_Witness ==
    /\ lastRun.prog = "Q" /\ lastRun.self_image_id = "Q"
    /\ lastRun.assumption # None /\ lastRun.journal # None
    /\ Decoded(lastRun.assumption[2]).selfImageID = "Q"
    /\ Decoded(lastRun.journal[2]).selfImageID = "Q"
    /\ \E r \in receipts :
          /\ r.image = "Q" /\ r.journal = lastRun.assumption[2]
          /\ r.rooted /\ Len(r.chain) = 1

\* the operations that need the database of the environment
DbOperations == {"spawn_with_db", "into_input", "into_beacon_input"}

\* C15: spawn_with_db, into_input or into_beacon_input called on an
\* environment whose database slot is empty ends in a panic: no blocking
\* task is started, no request is issued, nothing is returned, and the slot
\* is not filled by the call.
C15_EmptySlotPanics ==
    [][ (/\ env.state = "live" /\ fut = "none" /\ env.db = None
         /\ <<env, lastOp, outputs>>' # <<env, lastOp, outputs>>
         /\ lastOp'.op \in DbOperations) =>
            /\ lastOp'.result = "panic"
            /\ worker' = worker
            /\ fut' = "none"
            /\ ioLog' = ioLog
            /\ env'.db = None
            /\ env'.state # "live" \/ env' = env
            /\ \A i \in 1 .. Len(outputs') :
                  i > Len(outputs) => outputs'[i].result = <<"panic">> ]_vars

\* into_input was called while the detached blocking task still held the
\* database: it panicked and no request was made
C15_Witness ==
    /\ lastOp.op = "into_input" /\ lastOp.result = "panic"
    /\ worker.phase = "running" /\ worker.db # None
    /\ env.db = None /\ env.state = "consumed"
    /\ ioLog = <<>>

LowerHexChars == { LowerHex[i] : i \in 1 .. 16 }

Str0xff == <<"0", "x", "f", "f">>

\* C16: a selector that was parsed prints as a text that parses back to the
\* same selector; a tag prints as its name, Number(n) as "0x" followed by
\* the lowercase hexadecimal digits of n without leading zeros ("0x0" for
\* zero); "0xff" parses to Number(255) and Number(255) prints as "0xff".
C16_DisplayFromStrRoundTrip ==
    /\ (shown # None) =>
          LET b == parsed[2]
          IN  IF b[1] = "Number"
              THEN /\ Len(shown) >= 3 /\ Len(shown) <= 2 + U64Nibbles
                   /\ HasPrefix0x(shown)
                   /\ \A i \in 3 .. Len(shown) : shown[i] \in LowerHexChars
                   /\ (Len(shown) > 3) => shown[3] # "0"
                   /\ LiteralValue(shown) = b[2]
              ELSE shown \in Tags /\ TagOf(shown) = b
    /\ (reparsed # None) => reparsed = parsed
    /\ (str = Str0xff /\ parsed # None) => parsed = Ok(Number(U64Of(255)))
    /\ (parsed = Ok(Number(U64Of(255))) /\ shown # None) => shown = Str0xff

\* "0xFF" was parsed to Number(255), printed as "0xff" and parsed back
C16_Witness ==
    /\ str = <<"0", "x", "F", "F">>
    /\ parsed = Ok(Number(U64Of(255)))
    /\ shown = Str0xff
    /\ reparsed = parsed

\* supply_rate * SECONDS_PER_YEAR as an integer, on 96 bits (it fits: the
\* factor is below 2^25)
WideNibbles == U64Nibbles + 8

WideProduct(n) ==
    MulFrom(Zeros(WideNibbles - U64Nibbles) \o n, SECONDS_PER_YEAR,
            WideNibbles, 0).value

\* the rate getSupplyRate returned on the state a journal commits to
SupplyRateOf(commitment) ==
    (CHOOSE b \in ProvenBlocks : b.commitment = commitment).supplyRate

\* C17: the sample a committed journal adds to the accumulator is the
\* integer supply_rate * 31,536,000, for every supply rate the call
\* returned: no committed sample is the product reduced modulo 2^64.
C17_AnnualRateExact ==
    (lastRun.journal # None) =>
        LET rate   == SupplyRateOf(Decoded(lastRun.journal[2]).commitment)
            stats  == Decoded(lastRun.journal[2]).stats
            sample == stats[Len(stats)]
        IN  /\ sample = lastRun.sample[2]
            /\ Zeros(WideNibbles - U64Nibbles) \o sample = WideProduct(rate)

\* the configuration of the environment comes from one ChainSpec, or is the
\* one it was built with
ConfigFromOneChainSpec ==
    \/ /\ env.chain_id = "chain-default"
       /\ env.spec_id = "spec-default"
       /\ env.config_id = "digest-default"
    \/ \E cs \in ChainSpecs :
          /\ env.chain_id = cs.chain_id
          /\ env.config_id = cs.digest
          /\ active_fork(cs, env.header.number, env.header.timestamp)
                 = Some(env.spec_id)

\* C18: after any successful calls of with_chain_spec the chain id, the
\* spec id and the commit's config_id come from the ChainSpec of the last
\* call; a successful call changes nothing but these three: the header, the
\* database slot, the inner commit, the blocking task, what was returned and
\* the requests issued stay as they were.
C18_WithChainSpecFrame ==
    /\ [] ConfigFromOneChainSpec
    /\ [] ((lastOp.op = "with_chain_spec" /\ lastOp.result = "returned") =>
              /\ env.chain_id = lastOp.arg.chain_id
              /\ env.config_id = lastOp.arg.digest
              /\ active_fork(lastOp.arg, env.header.number, env.header.timestamp)
                     = Some(env.spec_id))
    /\ [][ (/\ lastOp'.op = "with_chain_spec" /\ lastOp'.result = "returned"
            /\ <<env, lastOp>>' # <<env, lastOp>>) =>
               /\ env' = [env EXCEPT !.chain_id = env'.chain_id,
                                     !.spec_id = env'.spec_id,
                                     !.config_id = env'.config_id]
               /\ env'.header = env.header
               /\ env'.db = env.db
               /\ env'.inner = env.inner
               /\ env'.commit = env.commit
               /\ UNCHANGED <<worker, fut, outputs, ioLog, dbLife>> ]_vars

\* with_chain_spec returned for the second ChainSpec on a History
\* environment with a fact recorded in its database
C18_Witness ==
    /\ lastOp.op = "with_chain_spec" /\ lastOp.result = "returned"
    /\ lastOp.arg.chain_id = "chain-5"
    /\ env.state = "live"
    /\ env.chain_id = "chain-5" /\ env.config_id = "digest-5"
    /\ env.spec_id = "SHANGHAI"
    /\ env.db = Some(1)
    /\ env.inner = "history_commit"

=============================================================================
